---------------------------- MODULE Spec2Model ----------------------------
(***************************************************************************)
(* Model of the library lending tracker of src/lib_management.py:          *)
(* InMemoryBookRepository (the catalog), LibraryService (the ledger        *)
(* borrowing_records and the borrow / return / list operations) and the    *)
(* NotificationService sink.                                               *)
(***************************************************************************)
EXTENDS Integers, Sequences, FiniteSets, TLC

(***************************************************************************)
(* Bounds and program constants.                                           *)
(***************************************************************************)
\* datetime.now() is read as a day number in 0..MaxNow
MaxNow == 1

\* timedelta(days=14)
LoanPeriod == 14

BookIds == {"B1", "B2"}
Titles == {"T1", "T2"}
MemberIds == {"M1", "M2"}
Emails == {"m1@x", "m2@x"}
Times == 0..MaxNow

\* class BookStatus(Enum)
BookStatus == {"available", "borrowed", "reserved", "lost"}

\* @dataclass Book; title stands for the payload fields title, author, isbn
Book == [id : BookIds, title : Titles, available : BOOLEAN]

NoArg == "-"

\* the threads of callers that run borrow_book at the same time
Threads == {"t1", "t2"}

\* a thread that is in no call
IdleFrame ==
    [pc |-> "idle", book_id |-> NoArg, member_id |-> NoArg, member_email |-> NoArg,
     title |-> NoArg, due_date |-> 0, result |-> "None"]

VARIABLES
    books,              \* InMemoryBookRepository.books : id -> Book
    borrowing_records,  \* LibraryService.borrowing_records, in insertion order
    call,               \* the last call made: [op, book_id, member_id]
    ret,                \* what the last call returned
    listed,             \* the list the last get_borrowed_books returned
    sent,               \* the notifications the sink accepted in the last call
    unreturned,         \* history: <<book, member>> borrowed with True, not yet returned with True
    onLoan,             \* history: ids borrowed with True, no return or catalog write of the id since
    returnRun,          \* history: how many return_book(b, m) in a row directly follow a successful borrow_book(b, m)
    frames,             \* the frames of borrow_book calls running on threads
    email_arg,          \* the member_email passed to the last call (NoArg when it takes none)
    surplus,            \* history: notifications the sink accepted minus borrow_book calls that returned True
    parking_spots,      \* ParkingLot.parking_spots
    lot_call,           \* the last call made on the ParkingLot
    lot_ret,            \* what the last call on the ParkingLot returned
    entities,           \* Board.entities
    position,           \* Player.position of each player of SnakeAndLadderGame.players
    winner,             \* SnakeAndLadderGame.winner: index of the player, 0 is None
    cursor,             \* play(): index of the player whose turn is next
    last_turn           \* history: the player, the position before and the roll of the last turn

libVars == <<books, borrowing_records, call, ret, listed, sent,
             unreturned, onLoan, returnRun, frames, email_arg, surplus>>

lotVars == <<parking_spots, lot_call, lot_ret>>

gameVars == <<entities, position, winner, cursor, last_turn>>

vars == <<libVars, lotVars, gameVars>>

(***************************************************************************)
(* dict[str, tuple[str, datetime]]: a Python dict keeps insertion order;   *)
(* assigning to a present key keeps its place, del removes the entry.      *)
(***************************************************************************)
HasRecord(d, book_id) == \E i \in 1..Len(d) : d[i].book_id = book_id

RecordOf(d, book_id) == d[CHOOSE i \in 1..Len(d) : d[i].book_id = book_id]

\* mutant: self.borrowing_records = {book_id: (member_id, due_date)}
SetRecord_Resets(d, book_id, member_id, due_date) ==
    <<[book_id |-> book_id, member_id |-> member_id, due_date |-> due_date]>>

SetRecord(d, book_id, member_id, due_date) ==
    LET e == [book_id |-> book_id, member_id |-> member_id, due_date |-> due_date]
    IN  IF HasRecord(d, book_id)
        THEN [i \in 1..Len(d) |-> IF d[i].book_id = book_id THEN e ELSE d[i]]
        ELSE Append(d, e)

\* mutant: del self.borrowing_records[book_id] left out
DelRecord_Keeps(d, book_id) == d

DelRecord(d, book_id) == SelectSeq(d, LAMBDA e : e.book_id # book_id)

(***************************************************************************)
(* InMemoryBookRepository                                                  *)
(***************************************************************************)
add_book(bks, book) ==
    [x \in DOMAIN bks \cup {book.id} |-> IF x = book.id THEN book ELSE bks[x]]

remove_book(bks, book_id) ==
    IF book_id \in DOMAIN bks
    THEN [x \in DOMAIN bks \ {book_id} |-> bks[x]]
    ELSE bks

\* Optional[Book]: <<>> is None
get_book(bks, book_id) ==
    IF book_id \in DOMAIN bks THEN <<bks[book_id]>> ELSE <<>>

\* mutant: available = (status == BookStatus.BORROWED)
update_book_status_Inverted(bks, book_id, status) ==
    IF book_id \in DOMAIN bks
    THEN [bks EXCEPT ![book_id].available = (status = "borrowed")]
    ELSE bks

update_book_status(bks, book_id, status) ==
    IF book_id \in DOMAIN bks
    THEN [bks EXCEPT ![book_id].available = (status = "available")]
    ELSE bks

(***************************************************************************)
(* LibraryService                                                          *)
(***************************************************************************)
\* no ParkingLot is built
NoLot ==
    /\ parking_spots = <<>>
    /\ lot_call = [op |-> "init", license_plate |-> NoArg, vehicle_type |-> NoArg]
    /\ lot_ret = "None"

\* no SnakeAndLadderGame is built
NoGame ==
    /\ entities = <<>>
    /\ position = <<>>
    /\ winner = 0
    /\ cursor = 0
    /\ last_turn = [player |-> 0, from |-> 0, roll |-> 0]

InitLibrary ==
    /\ books = [x \in {} |-> x]
    /\ borrowing_records = <<>>
    /\ call = [op |-> "init", book_id |-> NoArg, member_id |-> NoArg]
    /\ ret = "None"
    /\ listed = <<>>
    /\ sent = <<>>
    /\ unreturned = {}
    /\ onLoan = {}
    /\ returnRun = 0
    /\ frames = [t \in Threads |-> IdleFrame]
    /\ email_arg = NoArg
    /\ surplus = 0

Init == InitLibrary /\ NoLot /\ NoGame

\* add_new_book(book)
AddNewBook(book) ==
    /\ books' = add_book(books, book)
    /\ call' = [op |-> "add_new_book", book_id |-> book.id, member_id |-> NoArg]
    /\ ret' = "None"
    /\ listed' = <<>>
    /\ sent' = <<>>
    /\ onLoan' = onLoan \ {book.id}
    /\ returnRun' = 0
    /\ email_arg' = NoArg
    /\ UNCHANGED <<borrowing_records, unreturned, frames, surplus>>
    /\ UNCHANGED <<lotVars, gameVars>>

\* mutant: if book, with the test of book.available left out
CanBorrow_IgnoresAvailable(bks, book_id) == Len(get_book(bks, book_id)) = 1

\* line 99: if book and book.available
CanBorrow(bks, book_id) ==
    LET book == get_book(bks, book_id)
    IN  Len(book) = 1 /\ book[1].available

\* mutant: the comparison of borrowed_member_id with member_id left out
IsHolder_AnyMember(d, book_id, member_id) == HasRecord(d, book_id)

\* lines 112-114: the ledger holds book_id and its holder is member_id
IsHolder(d, book_id, member_id) ==
    HasRecord(d, book_id) /\ RecordOf(d, book_id).member_id = member_id

\* mutant: send_notification(book.title, ...), the title in the place of member_email
Notification_ToTitle(member_email, book, due_date) ==
    [to |-> book.title, title |-> book.title, due |-> due_date]

\* the message of lines 104-107
Notification(member_email, book, due_date) ==
    [to |-> member_email, title |-> book.title, due |-> due_date]

\* borrow_book(book_id, member_id, member_email); now is datetime.now(),
\* sink_ok is whether send_notification returns (TRUE) or raises (FALSE)
BorrowBook(book_id, member_id, member_email, now, sink_ok) ==
    /\ call' = [op |-> "borrow_book", book_id |-> book_id, member_id |-> member_id]
    /\ listed' = <<>>
    /\ returnRun' = 0
    /\ email_arg' = member_email
    /\ UNCHANGED frames
    /\ UNCHANGED <<lotVars, gameVars>>
    /\ IF CanBorrow(books, book_id)
       THEN LET book == get_book(books, book_id)[1]
                due_date == now + LoanPeriod
            IN  /\ borrowing_records' =
                       SetRecord(borrowing_records, book_id, member_id, due_date)
                /\ books' = update_book_status(books, book_id, "borrowed")
                /\ IF sink_ok
                   THEN /\ sent' = <<Notification(member_email, book, due_date)>>
                        /\ ret' = "True"
                        /\ unreturned' = unreturned \cup {<<book_id, member_id>>}
                        /\ onLoan' = onLoan \cup {book_id}
                   ELSE /\ sent' = <<>>
                        /\ ret' = "Raised"
                        /\ UNCHANGED <<unreturned, onLoan>>
       ELSE /\ ret' = "False"
            /\ sent' = <<>>
            /\ UNCHANGED <<books, borrowing_records, unreturned, onLoan>>
    /\ surplus' = surplus + Len(sent') - (IF ret' = "True" THEN 1 ELSE 0)

\* return_book(book_id, member_id)
ReturnBook(book_id, member_id) ==
    /\ call' = [op |-> "return_book", book_id |-> book_id, member_id |-> member_id]
    /\ listed' = <<>>
    /\ sent' = <<>>
    /\ returnRun' =
           IF /\ call = [op |-> "borrow_book", book_id |-> book_id, member_id |-> member_id]
              /\ ret = "True"
           THEN 1
           ELSE IF /\ returnRun = 1
                   /\ call = [op |-> "return_book", book_id |-> book_id,
                              member_id |-> member_id]
                THEN 2
                ELSE 0
    /\ email_arg' = NoArg
    /\ UNCHANGED <<frames, surplus>>
    /\ UNCHANGED <<lotVars, gameVars>>
    /\ IF IsHolder(borrowing_records, book_id, member_id)
       THEN /\ borrowing_records' = DelRecord(borrowing_records, book_id)
            /\ books' = update_book_status(books, book_id, "available")
            /\ ret' = "True"
            /\ unreturned' = unreturned \ {<<book_id, member_id>>}
            /\ onLoan' = onLoan \ {book_id}
       ELSE /\ ret' = "False"
            /\ UNCHANGED <<books, borrowing_records, unreturned, onLoan>>

\* mutant: the loop ends at the first entry of the member that does not resolve
BorrowedBooks_StopsAtMissing(bks, d, member_id) ==
    LET mine == SelectSeq(d, LAMBDA e : e.member_id = member_id)
        ok(i) == \A j \in 1..i : Len(get_book(bks, mine[j].book_id)) = 1
        n == Cardinality({i \in 1..Len(mine) : ok(i)})
    IN  [i \in 1..n |-> get_book(bks, mine[i].book_id)[1]]

\* lines 122-128: the books of the ledger entries of member_id that resolve
BorrowedBooks(bks, d, member_id) ==
    LET hits == SelectSeq(d, LAMBDA e : /\ e.member_id = member_id
                                        /\ Len(get_book(bks, e.book_id)) = 1)
    IN  [i \in 1..Len(hits) |-> get_book(bks, hits[i].book_id)[1]]

\* get_borrowed_books(member_id)
GetBorrowedBooks(member_id) ==
    /\ call' = [op |-> "get_borrowed_books", book_id |-> NoArg, member_id |-> member_id]
    /\ listed' = BorrowedBooks(books, borrowing_records, member_id)
    /\ ret' = "List"
    /\ sent' = <<>>
    /\ returnRun' = 0
    /\ email_arg' = NoArg
    /\ UNCHANGED <<books, borrowing_records, unreturned, onLoan, frames, surplus>>
    /\ UNCHANGED <<lotVars, gameVars>>

\* book_repository.remove_book(book_id), called on the repository the service shares
RemoveBook(book_id) ==
    /\ books' = remove_book(books, book_id)
    /\ call' = [op |-> "remove_book", book_id |-> book_id, member_id |-> NoArg]
    /\ ret' = "None"
    /\ listed' = <<>>
    /\ sent' = <<>>
    /\ onLoan' = onLoan \ {book_id}
    /\ returnRun' = 0
    /\ email_arg' = NoArg
    /\ UNCHANGED <<borrowing_records, unreturned, frames, surplus>>
    /\ UNCHANGED <<lotVars, gameVars>>

\* book_repository.update_book_status(book_id, status), called on the shared repository
UpdateBookStatus(book_id, status) ==
    /\ books' = update_book_status(books, book_id, status)
    /\ call' = [op |-> "update_book_status", book_id |-> book_id, member_id |-> NoArg]
    /\ ret' = "None"
    /\ listed' = <<>>
    /\ sent' = <<>>
    /\ onLoan' = onLoan \ {book_id}
    /\ returnRun' = 0
    /\ email_arg' = NoArg
    /\ UNCHANGED <<borrowing_records, unreturned, frames, surplus>>
    /\ UNCHANGED <<lotVars, gameVars>>

DoAddNewBook == \E book \in Book : AddNewBook(book)

DoBorrowBook ==
    \E book_id \in BookIds, member_id \in MemberIds, member_email \in Emails, now \in Times :
        BorrowBook(book_id, member_id, member_email, now, TRUE)

DoBorrowBookAnySink ==
    \E book_id \in BookIds, member_id \in MemberIds, member_email \in Emails, now \in Times,
       sink_ok \in BOOLEAN :
        BorrowBook(book_id, member_id, member_email, now, sink_ok)

DoReturnBook ==
    \E book_id \in BookIds, member_id \in MemberIds : ReturnBook(book_id, member_id)

DoGetBorrowedBooks == \E member_id \in MemberIds : GetBorrowedBooks(member_id)

DoRemoveBook == \E book_id \in BookIds : RemoveBook(book_id)

DoUpdateBookStatus ==
    \E book_id \in BookIds, status \in BookStatus : UpdateBookStatus(book_id, status)

\* the service with a sink that delivers (EmailNotification, SMSNotification)
Next ==
    \/ DoAddNewBook
    \/ DoBorrowBook
    \/ DoReturnBook
    \/ DoGetBorrowedBooks
    \/ DoRemoveBook
    \/ DoUpdateBookStatus

Spec == Init /\ [][Next]_vars

\* the service with a NotificationService whose send_notification may raise
NextAnySink ==
    \/ DoAddNewBook
    \/ DoBorrowBookAnySink
    \/ DoReturnBook
    \/ DoGetBorrowedBooks
    \/ DoRemoveBook
    \/ DoUpdateBookStatus

SpecAnySink == Init /\ [][NextAnySink]_vars

\* add_new_book of a Book built with the default available=True
DoAddNewBookDefault == \E book \in Book : book.available /\ AddNewBook(book)

\* the calls of LibraryService alone, as main() makes them
NextService ==
    \/ DoAddNewBookDefault
    \/ DoBorrowBook
    \/ DoReturnBook
    \/ DoGetBorrowedBooks

SpecService == Init /\ [][NextService]_vars

(***************************************************************************)
(* borrow_book run by several threads, one statement at a time.  The pc of *)
(* a frame is the source line the thread executes next.                    *)
(***************************************************************************)
\* lines 98-99: the catalog read and the test of book.available; line 109 on failure
TRead(t, book_id, member_id, member_email) ==
    /\ frames[t].pc = "idle"
    /\ frames' = [frames EXCEPT ![t] =
           IF CanBorrow(books, book_id)
           THEN [pc |-> "l100", book_id |-> book_id, member_id |-> member_id,
                 member_email |-> member_email,
                 title |-> get_book(books, book_id)[1].title,
                 due_date |-> 0, result |-> "None"]
           ELSE [IdleFrame EXCEPT !.result = "False"]]
    /\ UNCHANGED <<books, borrowing_records, call, ret, listed, sent,
                   unreturned, onLoan, returnRun, email_arg, surplus>>
    /\ UNCHANGED <<lotVars, gameVars>>

\* mutant: line 102 in the place of line 101, the ledger write lost
TLedger_WritesStatus(t, now) ==
    /\ frames[t].pc = "l100"
    /\ books' = update_book_status(books, frames[t].book_id, "borrowed")
    /\ frames' = [frames EXCEPT ![t].pc = "l102", ![t].due_date = now + LoanPeriod]
    /\ UNCHANGED <<borrowing_records, call, ret, listed, sent, unreturned, onLoan,
                   returnRun, email_arg, surplus>>
    /\ UNCHANGED <<lotVars, gameVars>>

\* lines 100-101: the ledger write
TLedger(t, now) ==
    /\ frames[t].pc = "l100"
    /\ LET due_date == now + LoanPeriod
       IN  /\ borrowing_records' = SetRecord(borrowing_records, frames[t].book_id,
                                             frames[t].member_id, due_date)
           /\ frames' = [frames EXCEPT ![t].pc = "l102", ![t].due_date = due_date]
    /\ UNCHANGED <<books, call, ret, listed, sent, unreturned, onLoan, returnRun,
                   email_arg, surplus>>
    /\ UNCHANGED <<lotVars, gameVars>>

\* lines 102-103: the status write
TStatus(t) ==
    /\ frames[t].pc = "l102"
    /\ books' = update_book_status(books, frames[t].book_id, "borrowed")
    /\ frames' = [frames EXCEPT ![t].pc = "l104"]
    /\ UNCHANGED <<borrowing_records, call, ret, listed, sent,
                   unreturned, onLoan, returnRun, email_arg, surplus>>
    /\ UNCHANGED <<lotVars, gameVars>>

\* lines 104-107: the notification
TNotify(t) ==
    /\ frames[t].pc = "l104"
    /\ sent' = <<[to |-> frames[t].member_email, title |-> frames[t].title,
                  due |-> frames[t].due_date]>>
    /\ frames' = [frames EXCEPT ![t].pc = "l108"]
    /\ surplus' = surplus + 1
    /\ UNCHANGED <<books, borrowing_records, call, ret, listed,
                   unreturned, onLoan, returnRun, email_arg>>
    /\ UNCHANGED <<lotVars, gameVars>>

\* line 108: return True
TReturn(t) ==
    /\ frames[t].pc = "l108"
    /\ frames' = [frames EXCEPT ![t] = [IdleFrame EXCEPT !.result = "True"]]
    /\ UNCHANGED <<books, borrowing_records, call, ret, listed, sent,
                   unreturned, onLoan, returnRun, email_arg>>
    /\ surplus' = surplus - 1
    /\ UNCHANGED <<lotVars, gameVars>>

\* the main thread fills the catalog while no borrow_book is running
AddWhileIdle ==
    /\ \A t \in Threads : frames[t].pc = "idle"
    /\ DoAddNewBook

NextThreads ==
    \/ AddWhileIdle
    \/ \E t \in Threads, book_id \in BookIds, member_id \in MemberIds,
          member_email \in Emails : TRead(t, book_id, member_id, member_email)
    \/ \E t \in Threads, now \in Times : TLedger(t, now)
    \/ \E t \in Threads : TStatus(t)
    \/ \E t \in Threads : TNotify(t)
    \/ \E t \in Threads : TReturn(t)

SpecThreads == Init /\ [][NextThreads]_vars

\* return_book called while no borrow_book is running
ReturnWhileIdle ==
    /\ \A t \in Threads : frames[t].pc = "idle"
    /\ DoReturnBook

\* one caller: borrow_book one statement at a time, the other calls between two borrows
NextSteps ==
    \/ AddWhileIdle
    \/ ReturnWhileIdle
    \/ \E book_id \in BookIds, member_id \in MemberIds, member_email \in Emails :
           TRead("t1", book_id, member_id, member_email)
    \/ \E now \in Times : TLedger("t1", now)
    \/ TStatus("t1")
    \/ TNotify("t1")
    \/ TReturn("t1")

SpecSteps == Init /\ [][NextSteps]_vars
(***************************************************************************)
(* The parking lot of src/car_parking.py.  A spot of parking_spots is      *)
(* [spot_id, spot_type, is_occupied, vehicle]; vehicle is Optional[Vehicle]*)
(* with <<>> for None.                                                     *)
(***************************************************************************)
\* the number of spots handed to ParkingLot
NumSpots == 3

VehicleTypes == {"Car", "Bike"}
Plates == {"P1", "P2"}

\* class Vehicle
Vehicle == [license_plate : Plates, vehicle_type : VehicleTypes]

\* ParkingSpot.__init__
NewSpot(spot_id, spot_type) ==
    [spot_id |-> spot_id, spot_type |-> spot_type, is_occupied |-> FALSE, vehicle |-> <<>>]

\* ParkingSpot.park_vehicle
SpotPark(spot, vehicle) == [spot EXCEPT !.is_occupied = TRUE, !.vehicle = <<vehicle>>]

\* ParkingSpot.remove_vehicle
SpotRemove(spot) == [spot EXCEPT !.is_occupied = FALSE, !.vehicle = <<>>]

\* mutant: the test of spot.is_occupied left out
find_spot_IgnoresOccupied(vehicle, spots) ==
    IF \E i \in 1..Len(spots) : spots[i].spot_type = vehicle.vehicle_type
    THEN CHOOSE i \in 1..Len(spots) :
             /\ spots[i].spot_type = vehicle.vehicle_type
             /\ \A j \in 1..(i - 1) : spots[j].spot_type # vehicle.vehicle_type
    ELSE 0

\* mutant: the loop keeps the last spot that fits, not the first
find_spot_Last(vehicle, spots) ==
    LET fits == {i \in 1..Len(spots) :
                    ~spots[i].is_occupied /\ spots[i].spot_type = vehicle.vehicle_type}
    IN  IF fits = {} THEN 0 ELSE CHOOSE i \in fits : \A j \in fits : j <= i

\* the for loop of find_spot from the spot at index i on; 0 is None
RECURSIVE FindSpotFrom(_, _, _)
FindSpotFrom(vehicle, spots, i) ==
    IF i > Len(spots)
    THEN 0
    ELSE IF ~spots[i].is_occupied /\ spots[i].spot_type = vehicle.vehicle_type
         THEN i
         ELSE FindSpotFrom(vehicle, spots, i + 1)

\* DefaultParkingStrategy.find_spot: the index of the spot returned, 0 is None
find_spot(vehicle, spots) == FindSpotFrom(vehicle, spots, 1)

\* the for loop of ParkingLot.remove_vehicle from the spot at index i on; 0: not found
RECURSIVE FindPlateFrom(_, _, _)
FindPlateFrom(license_plate, spots, i) ==
    IF i > Len(spots)
    THEN 0
    ELSE IF spots[i].is_occupied /\ spots[i].vehicle[1].license_plate = license_plate
         THEN i
         ELSE FindPlateFrom(license_plate, spots, i + 1)

\* ParkingLot(name, parking_spots, strategy) on freshly built spots
InitLot ==
    /\ InitLibrary
    /\ NoGame
    /\ \E types \in [1..NumSpots -> VehicleTypes] :
           parking_spots = [i \in 1..NumSpots |-> NewSpot(i, types[i])]
    /\ lot_call = [op |-> "init", license_plate |-> NoArg, vehicle_type |-> NoArg]
    /\ lot_ret = "None"

\* ParkingLot.park_vehicle(vehicle)
ParkVehicle(vehicle) ==
    /\ lot_call' = [op |-> "park_vehicle", license_plate |-> vehicle.license_plate,
                    vehicle_type |-> vehicle.vehicle_type]
    /\ LET spot == find_spot(vehicle, parking_spots)
       IN  IF spot # 0
           THEN /\ parking_spots' =
                       [parking_spots EXCEPT ![spot] = SpotPark(parking_spots[spot], vehicle)]
                /\ lot_ret' = "True"
           ELSE /\ lot_ret' = "False"
                /\ UNCHANGED parking_spots
    /\ UNCHANGED <<libVars, gameVars>>

\* ParkingLot.remove_vehicle(license_plate)
RemoveVehicle(license_plate) ==
    /\ lot_call' = [op |-> "remove_vehicle", license_plate |-> license_plate,
                    vehicle_type |-> NoArg]
    /\ LET spot == FindPlateFrom(license_plate, parking_spots, 1)
       IN  IF spot # 0
           THEN /\ parking_spots' =
                       [parking_spots EXCEPT ![spot] = SpotRemove(parking_spots[spot])]
                /\ lot_ret' = "True"
           ELSE /\ lot_ret' = "False"
                /\ UNCHANGED parking_spots
    /\ UNCHANGED <<libVars, gameVars>>

NextLot ==
    \/ \E vehicle \in Vehicle : ParkVehicle(vehicle)
    \/ \E license_plate \in Plates : RemoveVehicle(license_plate)

SpecLot == InitLot /\ [][NextLot]_vars

(***************************************************************************)
(* The game of src/Snake_and_Ladder.py.  position[p] is the position of    *)
(* the p-th player of the list, winner is the index of the winning player  *)
(* (0 for None), cursor the index of the player whose turn play() runs     *)
(* next, last_turn the player, position and roll of the turn last played.  *)
(***************************************************************************)
\* Board.size
BoardSize == 4
\* Dice.sides
Sides == 2
\* the longest list of entities handed to Board
MaxEntities == 2

\* the players of main
PlayerNames == <<"Alice", "Bob">>
Players == 1..Len(PlayerNames)

\* Snake and Ladder: both are a start and an end with the same apply
Entity == [start : 0..BoardSize, end : 0..BoardSize]

\* Snake.apply, Ladder.apply
apply(entity, pos) == IF pos = entity.start THEN entity.end ELSE pos

\* Board.get_final_position: the entities applied one after the other, in list order
RECURSIVE get_final_position(_, _)
get_final_position(ents, pos) ==
    IF ents = <<>>
    THEN pos
    ELSE get_final_position(Tail(ents), apply(Head(ents), pos))

\* mutant: the test of line 80 never holds
Overshoots_Never(new_position) == FALSE

\* play_turn line 80
Overshoots(new_position) == new_position > BoardSize

\* SnakeAndLadderGame(board, players, dice), the players at 0
InitGame ==
    /\ InitLibrary
    /\ NoLot
    /\ \E n \in 0..MaxEntities : entities \in [1..n -> Entity]
    /\ position = [p \in Players |-> 0]
    /\ winner = 0
    /\ cursor = 1
    /\ last_turn = [player |-> 0, from |-> 0, roll |-> 0]

\* one pass of the body of the for loop of play(): play_turn(player) with the
\* dice showing roll, then the test of line 96
PlayTurn(roll) ==
    /\ winner = 0
    /\ last_turn' = [player |-> cursor, from |-> position[cursor], roll |-> roll]
    /\ LET new_position == position[cursor] + roll
           final == get_final_position(entities, new_position)
       IN  IF Overshoots(new_position)
           THEN UNCHANGED <<position, winner>>
           ELSE /\ position' = [position EXCEPT ![cursor] = final]
                /\ winner' = IF final = BoardSize THEN cursor ELSE winner
    /\ cursor' = IF winner' # 0 THEN cursor ELSE (cursor % Len(PlayerNames)) + 1
    /\ UNCHANGED entities
    /\ UNCHANGED <<libVars, lotVars>>

NextGame == \E roll \in 1..Sides : PlayTurn(roll)

SpecGame == InitGame /\ [][NextGame]_vars

(***************************************************************************)
(* Vocabulary of the claims.                                               *)
(***************************************************************************)
\* the step is a call of borrow_book on book_id
IsBorrowStep(book_id) ==
    call'.op = "borrow_book" /\ call'.book_id = book_id

\* the step is a call of return_book(book_id, member_id)
IsReturnStep(book_id, member_id) ==
    call' = [op |-> "return_book", book_id |-> book_id, member_id |-> member_id]

\* the catalog holds book_id and marks it AVAILABLE
Available(bks, book_id) == book_id \in DOMAIN bks /\ bks[book_id].available

\* the catalog holds book_id and marks it BORROWED (available == False)
Borrowed(bks, book_id) == book_id \in DOMAIN bks /\ ~bks[book_id].available

\* the ledger entries of book_id: at most one, as a set
Entries(d, book_id) == {d[i] : i \in {j \in 1..Len(d) : d[j].book_id = book_id}}

(***************************************************************************)
(* C1: after every operation, every book of the catalog is marked BORROWED *)
(* if and only if borrowing_records holds an entry for its id.             *)
(* Stated as the claim; add_new_book of an id on loan refutes it.          *)
(***************************************************************************)
ClaimC1 ==
    \A book_id \in DOMAIN books :
        Borrowed(books, book_id) <=> Entries(borrowing_records, book_id) # {}

ClaimC3 ==
    \A t1, t2 \in Threads :
        (/\ t1 # t2
         /\ frames[t1].pc = "l108"
         /\ frames[t2].pc = "l108") => frames[t1].book_id # frames[t2].book_id

(***************************************************************************)
(* C4: return_book(book_id, member_id) by a member who is not the holder   *)
(* of the book's ledger entry returns False and changes neither the ledger *)
(* (holder, due date) nor the catalog.                                     *)
(***************************************************************************)
ClaimC4 ==
    [][\A book_id \in BookIds, member_id \in MemberIds :
          (/\ IsReturnStep(book_id, member_id)
           /\ \E e \in Entries(borrowing_records, book_id) : e.member_id # member_id)
          => /\ ret' = "False"
             /\ UNCHANGED <<books, borrowing_records>>]_vars

\* a return_book by a member other than the holder has just been refused
WitnessC4 ==
    /\ call.op = "return_book"
    /\ ret = "False"
    /\ \E e \in Entries(borrowing_records, call.book_id) : e.member_id # call.member_id

(***************************************************************************)
(* C5: in every reachable state where the ledger holds an entry of book_id *)
(* held by member_id, return_book(book_id, member_id) returns True,        *)
(* removes the entry and leaves the book AVAILABLE, so that borrow_book    *)
(* can succeed again.  Stated as the claim; a book removed from the        *)
(* catalog while on loan refutes it.                                       *)
(***************************************************************************)
ClaimC5 ==
    [][\A book_id \in BookIds, member_id \in MemberIds :
          (/\ IsReturnStep(book_id, member_id)
           /\ \E e \in Entries(borrowing_records, book_id) : e.member_id = member_id)
          => /\ ret' = "True"
             /\ Entries(borrowing_records', book_id) = {}
             /\ Available(books', book_id)
             /\ CanBorrow(books', book_id)]_vars

(***************************************************************************)
(* C6: borrow_book on a book id that has a ledger entry never replaces the *)
(* entry: holder and due date stay those of the original borrower and the  *)
(* call returns False.  Stated as the claim; adding the id to the catalog  *)
(* again refutes it.                                                       *)
(***************************************************************************)
ClaimC6 ==
    [][\A book_id \in BookIds :
          (IsBorrowStep(book_id) /\ Entries(borrowing_records, book_id) # {})
          => /\ ret' = "False"
             /\ Entries(borrowing_records', book_id) = Entries(borrowing_records, book_id)]_vars

(***************************************************************************)
(* C7: borrow_book on a book id that is absent from the catalog, or whose  *)
(* status is not AVAILABLE, returns False, leaves catalog and ledger       *)
(* unchanged and sends no notification.                                    *)
(***************************************************************************)
ClaimC7 ==
    [][\A book_id \in BookIds :
          (IsBorrowStep(book_id) /\ ~Available(books, book_id))
          => /\ ret' = "False"
             /\ UNCHANGED <<books, borrowing_records>>
             /\ sent' = <<>>]_vars

\* borrow_book has just been refused on an absent book while another is on loan
WitnessC7 ==
    /\ call.op = "borrow_book"
    /\ call.book_id \notin DOMAIN books
    /\ ret = "False"
    /\ sent = <<>>
    /\ borrowing_records # <<>>

(***************************************************************************)
(* C8: return_book called twice in a row with the same (book_id,           *)
(* member_id) right after the successful borrow_book: the first call       *)
(* returns True; the second returns False and leaves catalog and ledger as *)
(* the first left them, the book AVAILABLE and no ledger entry.            *)
(***************************************************************************)
ClaimC8 ==
    [][/\ returnRun' = 1 => ret' = "True"
       /\ returnRun' = 2 =>
              /\ ret = "True"
              /\ ret' = "False"
              /\ UNCHANGED <<books, borrowing_records>>
              /\ Available(books', call'.book_id)
              /\ Entries(borrowing_records', call'.book_id) = {}]_vars

\* the second return_book in a row has just run
WitnessC8 ==
    /\ returnRun = 2
    /\ call.op = "return_book"
    /\ ret = "False"

(***************************************************************************)
(* C9: when member_id has N successful borrow_book calls not yet returned, *)
(* get_borrowed_books(member_id) returns exactly those N books, each once, *)
(* and changes no state.  Stated as the claim; a loan whose ledger entry   *)
(* was replaced after the id was added again refutes it.                   *)
(***************************************************************************)
ClaimC9 ==
    [][call'.op = "get_borrowed_books" =>
          /\ {listed'[i].id : i \in 1..Len(listed')}
                 = {book_id \in BookIds : <<book_id, call'.member_id>> \in unreturned}
          /\ \A i, j \in 1..Len(listed') : listed'[i].id = listed'[j].id => i = j
          /\ UNCHANGED <<books, borrowing_records>>]_vars

(***************************************************************************)
(* C10: when the notification sink fails during borrow_book on an          *)
(* AVAILABLE book, borrow_book still returns True, and the ledger entry    *)
(* and the BORROWED status stay in place.  Stated as the claim; the        *)
(* exception of send_notification leaves borrow_book uncaught and refutes  *)
(* it.                                                                     *)
(***************************************************************************)
ClaimC10 ==
    [][\A book_id \in BookIds :
          (IsBorrowStep(book_id) /\ Available(books, book_id) /\ sent' = <<>>)
          => /\ ret' = "True"
             /\ Entries(borrowing_records', book_id) # {}
             /\ Borrowed(books', book_id)]_vars
(***************************************************************************)
(* C11: add_new_book of a book whose id is already in the catalog fails    *)
(* with DuplicateResource and leaves the existing record, its availability *)
(* included, unchanged.  Stated as the claim; add_book overwrites the      *)
(* record and refutes it.                                                  *)
(***************************************************************************)
ClaimC11 ==
    [][\A book_id \in BookIds :
          (/\ call'.op = "add_new_book"
           /\ call'.book_id = book_id
           /\ book_id \in DOMAIN books)
          => /\ ret' = "Raised"
             /\ books' = books]_vars

(***************************************************************************)
(* C12: a book record is never deleted from the catalog while the ledger   *)
(* holds an entry for its id: every id with a ledger entry is in the       *)
(* catalog.  Stated as the claim; remove_book tests nothing but the        *)
(* presence of the id and refutes it.                                      *)
(***************************************************************************)
ClaimC12 ==
    \A i \in 1..Len(borrowing_records) : borrowing_records[i].book_id \in DOMAIN books

(***************************************************************************)
(* C13: update_book_status on an id absent from the catalog fails with     *)
(* NotFound; on a present id it overwrites only the status of that book.   *)
(* Stated as the claim; on an absent id update_book_status returns         *)
(* silently and refutes it.                                                *)
(***************************************************************************)
ClaimC13 ==
    [][\A book_id \in BookIds :
          (call'.op = "update_book_status" /\ call'.book_id = book_id)
          => IF book_id \in DOMAIN books
             THEN /\ DOMAIN books' = DOMAIN books
                  /\ \A x \in DOMAIN books :
                         /\ books'[x].id = books[x].id
                         /\ books'[x].title = books[x].title
                         /\ x # book_id => books'[x] = books[x]
             ELSE ret' = "Raised"]_vars

(***************************************************************************)
(* C14: get_borrowed_books(member_id) skips, without raising, every ledger *)
(* entry of the member whose book id does not resolve in the catalog, and  *)
(* returns every entry of the member that does resolve.                    *)
(***************************************************************************)
ClaimC14 ==
    [][call'.op = "get_borrowed_books" =>
          /\ ret' = "List"
          /\ {listed'[i] : i \in 1..Len(listed')}
                 = {books[b] : b \in {x \in DOMAIN books :
                        \E e \in Entries(borrowing_records, x) :
                            e.member_id = call'.member_id}}]_vars

\* the list of a member with one entry that resolves behind one that does not
WitnessC14 ==
    /\ call.op = "get_borrowed_books"
    /\ Len(listed) = 1
    /\ Len(borrowing_records) = 2
    /\ borrowing_records[1].member_id = call.member_id
    /\ borrowing_records[2].member_id = call.member_id
    /\ borrowing_records[1].book_id \notin DOMAIN books
    /\ borrowing_records[2].book_id \in DOMAIN books
(***************************************************************************)
(* C17: borrow_book and return_book on book id b, whether they succeed or  *)
(* fail, leave the availability and the ledger entry of every other id     *)
(* unchanged, and never add or remove a catalog record.                    *)
(***************************************************************************)
ClaimC17 ==
    [][\A book_id \in BookIds :
          (/\ call'.op \in {"borrow_book", "return_book"}
           /\ call'.book_id = book_id)
          => /\ DOMAIN books' = DOMAIN books
             /\ \A other \in BookIds \ {book_id} :
                    /\ Entries(borrowing_records', other) = Entries(borrowing_records, other)
                    /\ other \in DOMAIN books => books'[other] = books[other]]_vars

\* a borrow_book has just succeeded while the other book is on loan
WitnessC17 ==
    /\ call.op = "borrow_book"
    /\ ret = "True"
    /\ \E other \in BookIds \ {call.book_id} :
           /\ Borrowed(books, other)
           /\ Entries(borrowing_records, other) # {}
(***************************************************************************)
(* C15: within a successful borrow_book the ledger write comes first, then *)
(* the catalog status write, then the notification: wherever the call      *)
(* stands, the ledger entry is written before the book is marked BORROWED, *)
(* both are written before the sink is invoked, and the book is never      *)
(* BORROWED with no ledger entry.                                          *)
(***************************************************************************)
ClaimC15 ==
    \A t \in Threads :
        LET pc == frames[t].pc
            book_id == frames[t].book_id
        IN  /\ pc = "l100" => Available(books, book_id)
            /\ pc = "l102" => /\ Entries(borrowing_records, book_id) # {}
                              /\ Available(books, book_id)
            /\ pc \in {"l104", "l108"} => /\ Entries(borrowing_records, book_id) # {}
                                          /\ Borrowed(books, book_id)
            /\ pc \in {"l100", "l102", "l104"} => surplus = 0
            /\ pc = "l108" => surplus = 1
            /\ pc # "idle" =>
                   (Borrowed(books, book_id) => Entries(borrowing_records, book_id) # {})

\* a borrow_book stands between its ledger write and its status write on a
\* book that was returned before
WitnessC15 ==
    /\ frames["t1"].pc = "l102"
    /\ call.op = "return_book"
    /\ ret = "True"
    /\ Available(books, frames["t1"].book_id)
    /\ Entries(borrowing_records, frames["t1"].book_id) # {}

(***************************************************************************)
(* C16: the sink is invoked exactly once per successful borrow_book, with  *)
(* the member_email passed to that call, and never by return_book,         *)
(* get_borrowed_books, add_new_book or a failed borrow_book; the number of *)
(* notifications sent equals the number of borrow_book calls that returned *)
(* True.                                                                   *)
(***************************************************************************)
ClaimC16 ==
    /\ [](surplus = 0)
    /\ [][IF call'.op = "borrow_book" /\ ret' = "True"
          THEN /\ Len(sent') = 1
               /\ sent'[1].to = email_arg'
          ELSE sent' = <<>>]_vars

\* a successful borrow_book has just notified an address other than the one
\* the ledger's other borrower was notified at
WitnessC16 ==
    /\ call.op = "borrow_book"
    /\ ret = "True"
    /\ Len(sent) = 1
    /\ sent[1].to = "m2@x"
    /\ call.member_id = "M1"
    /\ Len(borrowing_records) = 2
(***************************************************************************)
(* Vocabulary of the parking lot claims.                                   *)
(***************************************************************************)
\* the indices of the spots that are unoccupied and of the type of the vehicle
FreeFor(spots, vehicle_type) ==
    {i \in 1..Len(spots) : ~spots[i].is_occupied /\ spots[i].spot_type = vehicle_type}

\* the indices of the occupied spots that hold license_plate
Holding(spots, license_plate) ==
    {i \in 1..Len(spots) :
        spots[i].is_occupied /\ spots[i].vehicle # <<>>
                             /\ spots[i].vehicle[1].license_plate = license_plate}

Least(S) == CHOOSE i \in S : \A j \in S : i <= j

(***************************************************************************)
(* C18: after any sequence of ParkingLot.park_vehicle and remove_vehicle   *)
(* calls every spot is occupied iff its vehicle is not None, every         *)
(* occupied spot is of the type of its vehicle, and park_vehicle never     *)
(* replaces the vehicle of an occupied spot.                               *)
(***************************************************************************)
ClaimC18 ==
    /\ [](\A i \in 1..Len(parking_spots) :
              /\ parking_spots[i].is_occupied <=> parking_spots[i].vehicle # <<>>
              /\ parking_spots[i].is_occupied =>
                     parking_spots[i].spot_type = parking_spots[i].vehicle[1].vehicle_type)
    /\ [][lot_call'.op = "park_vehicle" =>
              \A i \in 1..Len(parking_spots) :
                  parking_spots[i].is_occupied => parking_spots'[i] = parking_spots[i]]_vars

\* park_vehicle has just been refused: every spot of the type is taken
WitnessC18 ==
    /\ lot_call.op = "park_vehicle"
    /\ lot_ret = "False"
    /\ \E i \in 1..Len(parking_spots) :
           /\ parking_spots[i].is_occupied
           /\ parking_spots[i].spot_type = lot_call.vehicle_type

(***************************************************************************)
(* C19: park_vehicle puts the vehicle in the first spot, in list order,    *)
(* that is unoccupied and of the vehicle's type and returns True; it       *)
(* returns False and changes no spot exactly when there is no such spot;   *)
(* remove_vehicle(plate) frees only the first occupied spot that holds the *)
(* plate, and returns False without changes when no spot holds it.         *)
(***************************************************************************)
ClaimC19 ==
    [][/\ lot_call'.op = "park_vehicle" =>
              LET free == FreeFor(parking_spots, lot_call'.vehicle_type)
                  vehicle == [license_plate |-> lot_call'.license_plate,
                              vehicle_type |-> lot_call'.vehicle_type]
              IN  IF free # {}
                  THEN /\ lot_ret' = "True"
                       /\ parking_spots' =
                              [parking_spots EXCEPT ![Least(free)].is_occupied = TRUE,
                                                    ![Least(free)].vehicle = <<vehicle>>]
                  ELSE /\ lot_ret' = "False"
                       /\ parking_spots' = parking_spots
       /\ lot_call'.op = "remove_vehicle" =>
              LET held == Holding(parking_spots, lot_call'.license_plate)
              IN  IF held # {}
                  THEN /\ lot_ret' = "True"
                       /\ parking_spots' =
                              [parking_spots EXCEPT ![Least(held)].is_occupied = FALSE,
                                                    ![Least(held)].vehicle = <<>>]
                  ELSE /\ lot_ret' = "False"
                       /\ parking_spots' = parking_spots]_vars

\* remove_vehicle has just freed the first of two spots that held the plate,
\* and a spot behind it is still occupied by it
WitnessC19 ==
    /\ lot_call.op = "remove_vehicle"
    /\ lot_ret = "True"
    /\ \E i, j \in 1..Len(parking_spots) :
           /\ i < j
           /\ ~parking_spots[i].is_occupied
           /\ j \in Holding(parking_spots, lot_call.license_plate)
(***************************************************************************)
(* C20: on a board whose snake and ladder ends lie within 0..size, every   *)
(* player's position is within 0..size in every reachable state; a turn    *)
(* whose roll would pass the board size leaves the player's position       *)
(* unchanged; the winner is set only for a player whose position is the    *)
(* board size; once a winner is set no further turn is played.             *)
(***************************************************************************)
ClaimC20 ==
    /\ [](\A p \in DOMAIN position : position[p] \in 0..BoardSize)
    /\ [](winner # 0 => position[winner] = BoardSize)
    /\ [][/\ last_turn'.from + last_turn'.roll > BoardSize => position' = position
          /\ winner' # winner => winner = 0 /\ position'[winner'] = BoardSize
          /\ winner # 0 => UNCHANGED gameVars]_vars

\* a player has won by an entity that ends on the last square, after the
\* other player has left square 0
WitnessC20 ==
    /\ winner # 0
    /\ last_turn.player = winner
    /\ last_turn.from + last_turn.roll < BoardSize
    /\ \E p \in DOMAIN position : p # winner /\ position[p] \in 1..(BoardSize - 1)
=============================================================================
